---- MODULE Spec2Model ----
(***************************************************************************)
(* A model of the RAG question-answering service: the ingestion and query  *)
(* handlers of ImprovedRAGService (src/rag_engine.py) as they are driven   *)
(* by the FastAPI application (src/main.py), and the evaluation engine     *)
(* RAGEvaluator (src/rag_evaluator.py).                                     *)
(*                                                                         *)
(* Scores are integers in thousandths (900 stands for 0.9); weighted sums  *)
(* are integers in units of 1e-5 (a score times a weight in hundredths).   *)
(* A completion text is a sequence of tokens, see Tok and Pair.            *)
(***************************************************************************)
EXTENDS Integers, Sequences, FiniteSets, TLC

VARIABLES
    \* ---- the evaluator's parser, applied to one completion text
    ptext,      \* the text the completion collaborator returned
    pmetric,    \* the metric function that receives it (1..4)
    presult,    \* what the metric function did with it
    pdone,      \* whether the metric function has run
    \* ---- one call of comprehensive_evaluation
    epc,        \* "metric", "aggregate" or "done"
    eresp,      \* what the completion collaborator did on each call so far
    emetrics,   \* the Metric Results computed so far, in call order
    ereport,    \* the Evaluation Report, once returned
    eout,       \* "none", "report" (returned) or "raised" (an exception left it)
    \* ---- the service: one ImprovedRAGService behind the FastAPI application
    data_dir,       \* the files of the data directory: absent, good or corrupt
    vector_store,   \* self.vector_store: NoIndex (None) or the live index
    persisted,      \* the index saved in the index directory, or NoIndex
    loop,           \* the request whose handler holds the event loop, or Free
    ipc,            \* each ingest request's position
    ireq,           \* each ingest request's chunk_size and chunk_overlap
    all_documents,  \* each ingest request's loaded documents
    building,       \* each ingest request's index under construction
    iresp,          \* each ingest request's HTTP response
    cpc,            \* each chat request's position
    creq,           \* each chat request's message, top_k and evaluate flag
    retriever,      \* the index each chat request's retriever searches
    reranked,       \* each chat request's reranked chunks
    calls,          \* completion calls each chat request has made
    cresp,          \* each chat request's HTTP response
    \* ---- the context composer, applied to one list of reranked chunks
    cdocs,          \* reranked_docs
    ccontext,       \* context_parts
    csources,       \* the sources of the result
    cdone,          \* whether query has composed them
    \* ---- the chunker, applied to one document
    gtext,          \* doc.page_content, a sequence of characters
    gsize,          \* chunk_size
    goverlap,       \* chunk_overlap
    gchunks,        \* what text_splitter.split_text returned
    gall,           \* all_chunks: the chunks emitted so far, with their metadata
    gpc,            \* "split", "track" or "done"
    \* ---- the reranker, applied to one list of candidates
    rquery,         \* the question, a sequence of words
    rtopk,          \* the k the retriever was asked for
    rcands,         \* the chunks the retriever returned, most similar first
    rtopn,          \* top_n
    rresult,        \* what _rerank_chunks returned
    rout            \* "none", "returned" or "raised"

pvars == <<ptext, pmetric, presult, pdone>>

evars == <<epc, eresp, emetrics, ereport, eout>>

dvars == <<data_dir, vector_store, persisted>>

ivars == <<ipc, ireq, all_documents, building, iresp>>

cvars == <<cpc, creq, retriever, reranked, calls, cresp>>

svars == <<dvars, loop, ivars, cvars>>

kvars == <<cdocs, ccontext, csources, cdone>>

gvars == <<gtext, gsize, goverlap, gchunks, gall, gpc>>

rvars == <<rquery, rtopk, rcands, rtopn, rresult, rout>>

vars == <<pvars, evars, svars, kvars, gvars, rvars>>

-----------------------------------------------------------------------------
(* Bounds of the model.                                                    *)

MaxTextLen == 5

NumIngest == 2

NumChat == 1

MaxReranked == 4

\* the longest document text given to the chunker, in characters
MaxDocLen == 5

\* the most chunks the retriever is asked for in front of the reranker
MaxCandidates == 3

-----------------------------------------------------------------------------
(* Completion texts.  A token is a record [t, v]: t is the token's kind    *)
(* and v the number it carries (0 when it carries none).                   *)
(*   "p"      a word of prose                                              *)
(*   "{" "}"  braces                                                       *)
(*   "F"      the fence opener ```json                                     *)
(*   "E"      the bare fence ```                                           *)
(*   "l"      a complete JSON value that is not an object (a list)         *)
(*   "score", "average_score"   a well-formed member  "key": v             *)

Tok(t) == [t |-> t, v |-> 0]

Pair(key, v) == [t |-> key, v |-> v]

Keys == {"score", "average_score"}

Missing == 0 - 1

SubText(text, a, b) == [i \in 1..(b - a + 1) |-> text[a + i - 1]]

\* dict.get(key, 0.0) on a parsed object
DictGet(d, key) == IF d[key] = Missing THEN 0 ELSE d[key]

\* The members of an object body, read left to right: a repeated key keeps
\* the last value, as json.loads does.
RECURSIVE ObjectOf(_)
ObjectOf(body) ==
    IF body = <<>> THEN [k \in Keys |-> Missing]
    ELSE LET n == Len(body)
             d == ObjectOf(SubSeq(body, 1, n - 1))
         IN  [d EXCEPT ![body[n].t] = body[n].v]

ParseError == [kind |-> "raise", obj |-> FALSE, d |-> [k \in Keys |-> Missing]]

\* json.loads(text): the text must be exactly one JSON value.
JsonLoads(text) ==
    LET n == Len(text) IN
    IF n = 1 /\ text[1].t = "l"
    THEN [kind |-> "value", obj |-> FALSE, d |-> [k \in Keys |-> Missing]]
    ELSE IF /\ n >= 2
            /\ text[1].t = "{"
            /\ text[n].t = "}"
            /\ \A i \in 2..(n - 1) : text[i].t \in Keys
    THEN [kind |-> "value", obj |-> TRUE, d |-> ObjectOf(SubSeq(text, 2, n - 1))]
    ELSE ParseError

\* {"score": 0.0, "verdict": "ERROR", "reasoning": "Failed to parse evaluation"}
DefaultObject ==
    [kind |-> "value", obj |-> TRUE,
     d |-> [k \in Keys |-> IF k = "score" THEN 0 ELSE Missing]]

\* A closing ``` matches the bare fence and the first three characters of ```json.
ClosesFence(tok) == tok.t \in {"E", "F"}

\* re.search(r'```json\s*(\{.*?\})\s*```', text, re.DOTALL): the positions
\* <<i, j>> of the opening brace and of the closing brace of group 1, for
\* every opener that has a match; the lazy .*? stops at the first closing
\* brace that is followed by a fence.
FencedMatches(text) ==
    { m \in (1..Len(text)) \X (1..Len(text)) :
        /\ m[1] >= 2
        /\ text[m[1] - 1].t = "F"
        /\ text[m[1]].t = "{"
        /\ m[2] > m[1]
        /\ m[2] < Len(text)
        /\ text[m[2]].t = "}"
        /\ ClosesFence(text[m[2] + 1])
        /\ \A j \in (m[1] + 1)..(m[2] - 1) :
              ~(text[j].t = "}" /\ ClosesFence(text[j + 1])) }

\* The leftmost match is the one re.search returns.
FencedMatch(text) ==
    CHOOSE m \in FencedMatches(text) :
        \A o \in FencedMatches(text) : m[1] <= o[1]

OpenBraces(text) == { i \in 1..Len(text) : text[i].t = "{" }

CloseBraces(text) == { i \in 1..Len(text) : text[i].t = "}" }

MinOf(S) == CHOOSE x \in S : \A y \in S : x <= y

MaxOf(S) == CHOOSE x \in S : \A y \in S : x >= y

\* re.search(r'\{.*\}', text, re.DOTALL): greedy, from the first opening
\* brace that has a closing brace after it to the last closing brace.
BraceSpanExists(text) ==
    \E a \in OpenBraces(text) : \E b \in CloseBraces(text) : a < b

BraceSpan(text) ==
    <<MinOf(OpenBraces(text)), MaxOf(CloseBraces(text))>>

\* RAGEvaluator._safe_parse_json
SafeParseJson(text) ==
    IF JsonLoads(text).kind = "value" THEN JsonLoads(text)
    ELSE IF FencedMatches(text) # {}
    THEN JsonLoads(SubText(text, FencedMatch(text)[1], FencedMatch(text)[2]))
    ELSE IF BraceSpanExists(text)
    THEN JsonLoads(SubText(text, BraceSpan(text)[1], BraceSpan(text)[2]))
    ELSE DefaultObject

-----------------------------------------------------------------------------
(* The four metric functions.  Each invokes the completion collaborator,   *)
(* parses its text and reads the score with dict.get.                      *)

Metrics == 1..4

MetricName(m) ==
    <<"context_relevance", "faithfulness", "answer_relevance", "citation_quality">>[m]

\* the key whose value is the metric's score
ScoreKey(m) == IF m = 1 THEN "average_score" ELSE "score"

\* the metric's own threshold, in thousandths
Threshold(m) == <<700, 800, 700, 600>>[m]

PassVerdict(m) == <<"PASS", "FAITHFUL", "RELEVANT", "GOOD">>[m]

FailVerdict(m) == <<"FAIL", "UNFAITHFUL", "IRRELEVANT", "POOR">>[m]

\* what the completion collaborator does on one call: it fails, or returns a text
LLMFailure == [err |-> TRUE, text |-> <<>>]

LLMText(text) == [err |-> FALSE, text |-> text]

MetricRaised(m) ==
    [kind |-> "raise", metric |-> MetricName(m), score |-> 0,
     verdict |-> "", threshold |-> Threshold(m)]

\* evaluate_context_relevance, evaluate_faithfulness, evaluate_answer_relevance,
\* evaluate_citation_quality: self.llm.invoke raises when the collaborator
\* fails; _safe_parse_json may raise; result.get raises on a value that is
\* not an object.
EvaluateMetric(m, response) ==
    IF response.err THEN MetricRaised(m)
    ELSE LET result == SafeParseJson(response.text) IN
         IF result.kind = "raise" \/ ~result.obj THEN MetricRaised(m)
         ELSE LET score == DictGet(result.d, ScoreKey(m)) IN
              [kind |-> "value", metric |-> MetricName(m), score |-> score,
               verdict |-> IF score >= Threshold(m) THEN PassVerdict(m)
                           ELSE FailVerdict(m),
               threshold |-> Threshold(m)]

-----------------------------------------------------------------------------
(* comprehensive_evaluation: the four metrics in order, the weighted       *)
(* overall score and the recommendations.                                  *)

\* a plausible slip: every metric weighted alike
WeightEqual(m) == <<25, 25, 25, 25>>[m]

\* the weights of the overall score, in hundredths
Weight(m) == <<25, 35, 25, 15>>[m]

\* context_rel["score"] * 0.25 + faithfulness["score"] * 0.35 + ..., in 1e-5
WeightedSum(ms) ==
    ms[1].score * Weight(1) + ms[2].score * Weight(2)
        + ms[3].score * Weight(3) + ms[4].score * Weight(4)

\* round(overall_score, 3), in thousandths.  The sum is a binary float: off
\* a tie it rounds to the nearest thousandth; at a decimal tie the float lies
\* on either side of it, so both neighbours are possible.
Round3(sum) ==
    LET q == sum \div 100
        r == sum % 100
    IN  IF r < 50 THEN {q} ELSE IF r > 50 THEN {q + 1} ELSE {q, q + 1}

\* a plausible slip: the pass mark of the faithfulness metric, 0.8, taken
\* for the overall verdict
OverallVerdictAtFaithfulnessMark(sum) == IF sum >= 800 * 100 THEN "PASS" ELSE "FAIL"

\* "PASS" if overall_score >= 0.7 else "FAIL", on the unrounded sum
OverallVerdict(sum) == IF sum >= 700 * 100 THEN "PASS" ELSE "FAIL"

\* a plausible slip: one pass mark for every metric
RecThresholdUniform(m) == <<700, 700, 700, 700>>[m]

\* the thresholds _generate_detailed_recommendations compares against
RecThreshold(m) == <<700, 800, 700, 600>>[m]

Warning(m, score) == [kind |-> "warning", metric |-> m, score |-> score]

Acknowledgment == [kind |-> "ack", metric |-> 0, score |-> 0]

WarningIfLow(ms, m) ==
    IF ms[m].score < RecThreshold(m) THEN <<Warning(m, ms[m].score)>> ELSE <<>>

\* RAGEvaluator._generate_detailed_recommendations
GenerateRecommendations(ms) ==
    LET recs == WarningIfLow(ms, 1) \o WarningIfLow(ms, 2)
                    \o WarningIfLow(ms, 3) \o WarningIfLow(ms, 4)
    IN  IF recs = <<>> THEN <<Acknowledgment>> ELSE recs

\* the reports comprehensive_evaluation can return for four Metric Results
Reports(ms) ==
    { [overall_score |-> r,
       overall_verdict |-> OverallVerdict(WeightedSum(ms)),
       metrics |-> ms,
       recommendations |-> GenerateRecommendations(ms)] :
        r \in Round3(WeightedSum(ms)) }


-----------------------------------------------------------------------------
(* The query pipeline's pure steps: reranking, context blocks, citations.  *)
(* A path is a sequence of names and separators; a chunk is a record       *)
(* [source, page, preview, content], content being a sequence of words.    *)

Separators == {"/", "\\"}

\* path.split('\\')[-1].split('/')[-1]: what follows the last separator
RECURSIVE ShortName(_)
ShortName(path) ==
    IF path = <<>> THEN <<>>
    ELSE IF path[Len(path)] \in Separators THEN <<>>
    ELSE ShortName(SubSeq(path, 1, Len(path) - 1)) \o <<path[Len(path)]>>

\* str.lower() on a word
Lower(w) == IF w = "Budget" THEN "budget" ELSE w

\* set(text.lower().split())
Terms(words) == { Lower(words[i]) : i \in 1..Len(words) }

\* len(query_terms.intersection(chunk_terms)): the numerator of keyword_score
Overlap(query, chunk) == Cardinality(Terms(query) \cap Terms(chunk.content))

\* keyword_score divides by len(query_terms): ZeroDivisionError when the
\* query has no term and there is a chunk to score
RerankRaises(query, chunks) == Terms(query) = {} /\ chunks # <<>>

\* a plausible slip: an ascending sort that is then reversed, which puts the
\* latest chunk of the highest score first
LastBestIndex(query, chunks) ==
    CHOOSE i \in 1..Len(chunks) :
        /\ \A j \in 1..Len(chunks) : Overlap(query, chunks[j]) <= Overlap(query, chunks[i])
        /\ \A j \in (i + 1)..Len(chunks) : Overlap(query, chunks[j]) < Overlap(query, chunks[i])

\* the position sorted(..., reverse=True) puts first: the earliest chunk of
\* the highest score (the sort is stable)
BestIndex(query, chunks) ==
    CHOOSE i \in 1..Len(chunks) :
        /\ \A j \in 1..Len(chunks) : Overlap(query, chunks[j]) <= Overlap(query, chunks[i])
        /\ \A j \in 1..(i - 1) : Overlap(query, chunks[j]) < Overlap(query, chunks[i])

RemoveAt(seq, i) == SubSeq(seq, 1, i - 1) \o SubSeq(seq, i + 1, Len(seq))

RECURSIVE SortByScore(_, _)
SortByScore(query, chunks) ==
    IF chunks = <<>> THEN <<>>
    ELSE LET i == BestIndex(query, chunks)
         IN  <<chunks[i]>> \o SortByScore(query, RemoveAt(chunks, i))

Prefix(seq, n) == SubSeq(seq, 1, IF Len(seq) < n THEN Len(seq) ELSE n)

\* ImprovedRAGService._rerank_chunks, when it does not raise
RerankChunks(query, chunks, top_n) == Prefix(SortByScore(query, chunks), top_n)

\* top_n=5 in query
RerankTopN == 5

\* "[Source i: file, Page page]\ncontent\n", for each reranked chunk
ContextParts(docs) ==
    [i \in 1..Len(docs) |->
        [label |-> i, file |-> ShortName(docs[i].source), page |-> docs[i].page,
         content |-> docs[i].content]]

\* source_info of each reranked chunk
SourceInfos(docs) ==
    [i \in 1..Len(docs) |->
        [file |-> ShortName(docs[i].source), page |-> docs[i].page,
         preview |-> docs[i].preview]]

SourceKey(source) == <<source.file, source.page>>

\* a plausible slip: a dict keyed by (file, page), whose later entries
\* overwrite the earlier ones
RECURSIVE DeduplicateKeepLast(_)
DeduplicateKeepLast(sources) ==
    IF sources = <<>> THEN <<>>
    ELSE LET n == Len(sources)
             rest == DeduplicateKeepLast(SubSeq(sources, 1, n - 1))
         IN  IF \E i \in 1..Len(rest) : SourceKey(rest[i]) = SourceKey(sources[n])
             THEN [i \in 1..Len(rest) |->
                     IF SourceKey(rest[i]) = SourceKey(sources[n])
                     THEN sources[n] ELSE rest[i]]
             ELSE Append(rest, sources[n])

\* ImprovedRAGService._deduplicate_sources
RECURSIVE DeduplicateSources(_)
DeduplicateSources(sources) ==
    IF sources = <<>> THEN <<>>
    ELSE LET n == Len(sources)
             rest == DeduplicateSources(SubSeq(sources, 1, n - 1))
         IN  IF \E i \in 1..Len(rest) : SourceKey(rest[i]) = SourceKey(sources[n])
             THEN rest
             ELSE Append(rest, sources[n])

-----------------------------------------------------------------------------
(* The chunker's pure steps.  A document text is a sequence of characters; *)
(* the texts of the model hold letters only, so that of the separators of  *)
(* the splitter only the last one, "", applies: the text is split into its *)
(* characters, which are merged into chunks of chunk_size characters, each *)
(* chunk starting with the last chunk_overlap characters of the one before *)
(* (at most chunk_size - 1 of them).                                       *)

\* the chunks from position start on (1-based), a new one every step characters
RECURSIVE SplitFrom(_, _, _, _)
SplitFrom(text, start, size, step) ==
    IF start + size - 1 >= Len(text)
    THEN <<SubSeq(text, start, Len(text))>>
    ELSE <<SubSeq(text, start, start + size - 1)>>
             \o SplitFrom(text, start + step, size, step)

\* text_splitter.split_text(doc.page_content); an empty text gives no chunk
SplitText(text, size, overlap) ==
    IF text = <<>> THEN <<>>
    ELSE SplitFrom(text, 1, size, size - MinOf({overlap, size - 1}))

\* doc.page_content.find(chunk): the 0-based start of the first occurrence,
\* -1 when there is none
Find(text, chunk) ==
    LET hits == { at \in 0..(Len(text) - Len(chunk)) :
                    SubSeq(text, at + 1, at + Len(chunk)) = chunk }
    IN  IF hits = {} THEN -1 ELSE MinOf(hits)

\* chunk_start / total_chars if total_chars > 0 else 0, as a fraction
ChunkPosition(text, chunk) ==
    IF Len(text) > 0 THEN [num |-> Find(text, chunk), den |-> Len(text)]
    ELSE [num |-> 0, den |-> 1]

\* chunk i (0-based) of the document, with chunk_metadata
TrackedChunk(text, chunks, i) ==
    [content |-> chunks[i + 1], chunk_id |-> i,
     chunk_position |-> ChunkPosition(text, chunks[i + 1]),
     total_chunks |-> Len(chunks)]

NotRun == [kind |-> "none", metric |-> "", score |-> 0, verdict |-> "", threshold |-> 0]

NoReport ==
    [overall_score |-> 0, overall_verdict |-> "", metrics |-> <<>>,
     recommendations |-> <<>>]

EvalIdle ==
    /\ epc = "done"
    /\ eresp = <<>>
    /\ emetrics = <<>>
    /\ ereport = NoReport
    /\ eout = "none"

-----------------------------------------------------------------------------
(* The service.  The FastAPI handlers are coroutines (async def) that call *)
(* the blocking service methods without awaiting anything, so a handler    *)
(* holds the single-threaded event loop from its first statement to its    *)
(* return; a request that arrives meanwhile waits.  Each handler is a      *)
(* sequence of steps, one per statement that reads or writes shared state. *)

Free == <<"free", 0>>

IngestClients == { <<"ingest", n>> : n \in 1..NumIngest }

ChatClients == { <<"chat", n>> : n \in 1..NumChat }

\* a plausible slip: handlers declared def, which FastAPI runs on a thread
\* pool, so a handler starts whatever the others are doing
LoopAlwaysFree(owner) == TRUE

\* the event loop runs a handler only when no other handler is running
LoopFree(owner) == owner = Free

FileNames == {"a.pdf", "b.docx"}

FileStates == {"absent", "good", "corrupt"}

\* os.path.join(self.data_dir, name)
PathOf(name) == <<"data", "/", name>>

\* what the loader of a file returns: the pages of a PDF, the paragraphs of
\* a Word document
DocsOfFile(name) ==
    IF name = "a.pdf"
    THEN <<[source |-> PathOf(name), page |-> "0", text |-> "A"]>>
    ELSE <<[source |-> PathOf(name), page |-> "Para-1", text |-> "B"]>>

\* a plausible slip: one try around each loading loop and none inside it,
\* so that the first file whose loader raises ends the loading
LoadUntilFailure(dir) ==
    IF dir["a.pdf"] = "corrupt" THEN <<>>
    ELSE (IF dir["a.pdf"] = "good" THEN DocsOfFile("a.pdf") ELSE <<>>)
             \o (IF dir["b.docx"] = "good" THEN DocsOfFile("b.docx") ELSE <<>>)

\* the loading loops of ingest_folder: PDF files, then Word files; a file
\* whose loader raises is skipped
LoadAll(dir) ==
    (IF dir["a.pdf"] = "good" THEN DocsOfFile("a.pdf") ELSE <<>>)
        \o (IF dir["b.docx"] = "good" THEN DocsOfFile("b.docx") ELSE <<>>)

\* RecursiveCharacterTextSplitter(chunk_size, chunk_overlap) raises
\* ValueError when the overlap is larger than the size
SplitterRejects(chunk_size, chunk_overlap) == chunk_overlap > chunk_size

\* the chunks text_splitter.split_text cuts a document into, with the
\* metadata _chunk_with_page_tracking attaches
ChunksOfDoc(doc) ==
    IF doc.text = "A"
    THEN <<[source |-> doc.source, page |-> doc.page, preview |-> "a1",
            content |-> <<"Budget", "plan">>],
           [source |-> doc.source, page |-> doc.page, preview |-> "a2",
            content |-> <<"risk", "plan">>]>>
    ELSE <<[source |-> doc.source, page |-> doc.page, preview |-> "b1",
            content |-> <<"budget", "team">>]>>

\* ImprovedRAGService._chunk_with_page_tracking, over all documents
RECURSIVE ChunkAll(_)
ChunkAll(docs) ==
    IF docs = <<>> THEN <<>>
    ELSE ChunkAll(SubSeq(docs, 1, Len(docs) - 1)) \o ChunksOfDoc(docs[Len(docs)])

\* self.vector_store = None
NoIndex == [loaded |-> FALSE, docs |-> <<>>, chunks |-> <<>>]

\* an index under construction over docs, nothing embedded yet
EmptyIndex(docs) == [loaded |-> TRUE, docs |-> docs, chunks |-> <<>>]

\* FAISS.from_documents(texts, embeddings), finished
IndexOf(docs) == [loaded |-> TRUE, docs |-> docs, chunks |-> ChunkAll(docs)]

\* an index holds every chunk of the documents it was built from
Complete(ix) == ix.chunks = ChunkAll(ix.docs)

\* the indexes a previous run can have saved
SavedIndexes ==
    { IndexOf(LoadAll(d)) : d \in { e \in [FileNames -> FileStates] : LoadAll(e) # <<>> } }

\* a plausible slip: the index object created before FAISS.load_local fills
\* it, so that a failed load leaves an index without chunks
LoadKeepsPartial(saved, ok) ==
    IF saved.loaded THEN (IF ok THEN saved ELSE EmptyIndex(saved.docs)) ELSE NoIndex

\* _load_index_if_exists: nothing is loaded when the index directory holds
\* nothing; FAISS.load_local returns the saved index, or raises, and then the
\* except clause prints and self.vector_store stays None
LoadIndexIfExists(saved, ok) ==
    IF saved.loaded /\ ok THEN saved ELSE NoIndex

\* a plausible slip: the guard "if not self.vector_store" left out
IndexAlwaysLoaded(vs) == TRUE

\* if not self.vector_store
IndexLoaded(vs) == vs.loaded

\* a plausible slip: the new chunks added to the index already in memory
\* (vector_store.add_documents) instead of replacing it
AddToIndex(live, built) ==
    IF live.loaded
    THEN [loaded |-> TRUE, docs |-> live.docs \o built.docs,
          chunks |-> live.chunks \o built.chunks]
    ELSE built

\* self.vector_store = FAISS.from_documents(...): the new index replaces the
\* one in memory, whatever that held
ReplaceIndex(live, built) == built

\* a plausible slip: the index under construction assigned to
\* self.vector_store before its chunks are added
PublishWhileBuilding(live, partial) == partial

\* self.vector_store while FAISS.from_documents is still running: the
\* assignment happens after the call returns
LiveDuringBuild(live, partial) == live

ChunkSizes == {2}

ChunkOverlaps == {1, 2, 3}

IngestRequests == [chunk_size : ChunkSizes, chunk_overlap : ChunkOverlaps]

NoIngestRequest == [chunk_size |-> 0, chunk_overlap |-> 0]

Questions == {<<>>, <<"Budget">>}

TopKs == {1, 3}

ChatRequests == [message : Questions, top_k : TopKs, evaluate : BOOLEAN]

NoChatRequest == [message |-> <<>>, top_k |-> 0, evaluate |-> FALSE]

NoIngestResponse == [status |-> 0, message |-> ""]

NoChatResponse == [status |-> 0, answer |-> "", sources |-> <<>>, evaluation |-> NoReport]

\* raise HTTPException(status_code=500, ...)
IngestError == [status |-> 500, message |-> "error"]

ChatError == [status |-> 500, answer |-> "", sources |-> <<>>, evaluation |-> NoReport]

\* the short-circuit result of query, as chat returns it: result.get("evaluation", None)
IndexNotFound ==
    [status |-> 200, answer |-> "Index not found", sources |-> <<>>,
     evaluation |-> NoReport]

\* retriever.invoke(question): up to k chunks of the index, most similar
\* first; the similarity order is the embedding collaborator's
SearchResults(ix, k) ==
    LET n == IF Len(ix.chunks) < k THEN Len(ix.chunks) ELSE k
    IN  { [i \in 1..n |-> ix.chunks[order[i]]] :
            order \in { o \in [1..n -> 1..Len(ix.chunks)] :
                          \A a \in 1..n : \A b \in 1..n : a # b => o[a] # o[b] } }

\* what the completion collaborator does for metric m of a chat's evaluation
ServiceResponses(m) ==
    {LLMFailure, LLMText(<<Tok("{"), Pair(ScoreKey(m), 900), Tok("}")>>)}

MetricResults(rs) == [m \in Metrics |-> EvaluateMetric(m, rs[m])]

RaisingMetrics(rs) == { m \in Metrics : MetricResults(rs)[m].kind = "raise" }

-----------------------------------------------------------------------------
(* POST /upload, DELETE /files/{filename}                                  *)

UploadFile(name, content) ==
    /\ LoopFree(loop)
    /\ content \in {"good", "corrupt"}
    /\ data_dir' = [data_dir EXCEPT ![name] = content]
    /\ UNCHANGED <<vector_store, persisted, loop, ivars, cvars>>
    /\ UNCHANGED <<pvars, evars, kvars, gvars, rvars>>

DeleteFile(name) ==
    /\ LoopFree(loop)
    /\ data_dir[name] # "absent"
    /\ data_dir' = [data_dir EXCEPT ![name] = "absent"]
    /\ UNCHANGED <<vector_store, persisted, loop, ivars, cvars>>
    /\ UNCHANGED <<pvars, evars, kvars, gvars, rvars>>

-----------------------------------------------------------------------------
(* POST /ingest: ingest_documents calling ingest_folder                    *)

\* a request reaches the server and waits for the event loop
IngestArrive(i) ==
    /\ ipc[i] = "idle"
    /\ ipc' = [ipc EXCEPT ![i] = "pending"]
    /\ UNCHANGED <<dvars, loop, ireq, all_documents, building, iresp, cvars>>
    /\ UNCHANGED <<pvars, evars, kvars, gvars, rvars>>

\* the event loop runs the handler, which reads the request body
IngestStart(i, r) ==
    /\ ipc[i] = "pending"
    /\ LoopFree(loop)
    /\ loop' = i
    /\ ireq' = [ireq EXCEPT ![i] = r]
    /\ ipc' = [ipc EXCEPT ![i] = "load"]
    /\ UNCHANGED <<dvars, all_documents, building, iresp, cvars>>
    /\ UNCHANGED <<pvars, evars, kvars, gvars, rvars>>

\* the loading loops found a document
IngestLoad(i) ==
    /\ ipc[i] = "load"
    /\ LoadAll(data_dir) # <<>>
    /\ all_documents' = [all_documents EXCEPT ![i] = LoadAll(data_dir)]
    /\ ipc' = [ipc EXCEPT ![i] = "chunk"]
    /\ UNCHANGED <<dvars, loop, ireq, building, iresp, cvars>>
    /\ UNCHANGED <<pvars, evars, kvars, gvars, rvars>>

\* if not all_documents: return "No documents found in data directory."
IngestLoadNothing(i) ==
    /\ ipc[i] = "load"
    /\ LoadAll(data_dir) = <<>>
    /\ iresp' = [iresp EXCEPT ![i] = [status |-> 200, message |-> "No documents found"]]
    /\ ipc' = [ipc EXCEPT ![i] = "done"]
    /\ UNCHANGED <<dvars, loop, ireq, all_documents, building, cvars>>
    /\ UNCHANGED <<pvars, evars, kvars, gvars, rvars>>

\* _chunk_with_page_tracking: the splitter is constructed and the documents split
IngestChunk(i) ==
    /\ ipc[i] = "chunk"
    /\ ~SplitterRejects(ireq[i].chunk_size, ireq[i].chunk_overlap)
    /\ building' = [building EXCEPT ![i] = EmptyIndex(all_documents[i])]
    /\ ipc' = [ipc EXCEPT ![i] = "build"]
    /\ UNCHANGED <<dvars, loop, ireq, all_documents, iresp, cvars>>
    /\ UNCHANGED <<pvars, evars, kvars, gvars, rvars>>

\* the splitter's constructor raises; ingest_documents answers 500
IngestChunkRejected(i) ==
    /\ ipc[i] = "chunk"
    /\ SplitterRejects(ireq[i].chunk_size, ireq[i].chunk_overlap)
    /\ iresp' = [iresp EXCEPT ![i] = IngestError]
    /\ ipc' = [ipc EXCEPT ![i] = "done"]
    /\ UNCHANGED <<dvars, loop, ireq, all_documents, building, cvars>>
    /\ UNCHANGED <<pvars, evars, kvars, gvars, rvars>>

\* FAISS.from_documents embeds and adds the next chunk
IngestEmbed(i) ==
    /\ ipc[i] = "build"
    /\ LET texts == ChunkAll(all_documents[i])
           next == [building[i] EXCEPT
                       !.chunks = Append(@, texts[Len(building[i].chunks) + 1])]
       IN  /\ building' = [building EXCEPT ![i] = next]
           /\ vector_store' = LiveDuringBuild(vector_store, next)
           /\ ipc' = [ipc EXCEPT ![i] = IF Complete(next) THEN "swap" ELSE "build"]
    /\ UNCHANGED <<data_dir, persisted, loop, ireq, all_documents, iresp, cvars>>
    /\ UNCHANGED <<pvars, evars, kvars, gvars, rvars>>

\* the embedding collaborator raises inside FAISS.from_documents
IngestEmbedFails(i) ==
    /\ ipc[i] = "build"
    /\ iresp' = [iresp EXCEPT ![i] = IngestError]
    /\ ipc' = [ipc EXCEPT ![i] = "done"]
    /\ UNCHANGED <<dvars, loop, ireq, all_documents, building, cvars>>
    /\ UNCHANGED <<pvars, evars, kvars, gvars, rvars>>

\* self.vector_store = <the index from_documents returned>
IngestSwap(i) ==
    /\ ipc[i] = "swap"
    /\ vector_store' = ReplaceIndex(vector_store, building[i])
    /\ ipc' = [ipc EXCEPT ![i] = "save"]
    /\ UNCHANGED <<data_dir, persisted, loop, ireq, all_documents, building, iresp, cvars>>
    /\ UNCHANGED <<pvars, evars, kvars, gvars, rvars>>

\* self.vector_store.save_local(self.index_dir); return "Successfully ingested ..."
IngestSave(i) ==
    /\ ipc[i] = "save"
    /\ persisted' = vector_store
    /\ iresp' = [iresp EXCEPT ![i] = [status |-> 200, message |-> "Successfully ingested"]]
    /\ ipc' = [ipc EXCEPT ![i] = "done"]
    /\ UNCHANGED <<data_dir, vector_store, loop, ireq, all_documents, building, cvars>>
    /\ UNCHANGED <<pvars, evars, kvars, gvars, rvars>>

\* save_local raises (the index directory cannot be written)
IngestSaveFails(i) ==
    /\ ipc[i] = "save"
    /\ iresp' = [iresp EXCEPT ![i] = IngestError]
    /\ ipc' = [ipc EXCEPT ![i] = "done"]
    /\ UNCHANGED <<dvars, loop, ireq, all_documents, building, cvars>>
    /\ UNCHANGED <<pvars, evars, kvars, gvars, rvars>>

\* the handler returns: the response is sent, the request's locals are gone
\* and the event loop is free again
IngestRespond(i) ==
    /\ ipc[i] = "done"
    /\ ipc' = [ipc EXCEPT ![i] = "idle"]
    /\ ireq' = [ireq EXCEPT ![i] = NoIngestRequest]
    /\ all_documents' = [all_documents EXCEPT ![i] = <<>>]
    /\ building' = [building EXCEPT ![i] = NoIndex]
    /\ iresp' = [iresp EXCEPT ![i] = NoIngestResponse]
    /\ loop' = Free
    /\ UNCHANGED <<dvars, cvars>>
    /\ UNCHANGED <<pvars, evars, kvars, gvars, rvars>>

-----------------------------------------------------------------------------
(* POST /chat: chat calling query                                          *)

ChatArrive(c) ==
    /\ cpc[c] = "idle"
    /\ cpc' = [cpc EXCEPT ![c] = "pending"]
    /\ UNCHANGED <<dvars, loop, ivars, creq, retriever, reranked, calls, cresp>>
    /\ UNCHANGED <<pvars, evars, kvars, gvars, rvars>>

ChatStart(c, r) ==
    /\ cpc[c] = "pending"
    /\ LoopFree(loop)
    /\ loop' = c
    /\ creq' = [creq EXCEPT ![c] = r]
    /\ cpc' = [cpc EXCEPT ![c] = "check"]
    /\ UNCHANGED <<dvars, ivars, retriever, reranked, calls, cresp>>
    /\ UNCHANGED <<pvars, evars, kvars, gvars, rvars>>

\* if not self.vector_store: return the fixed answer
ChatNoIndex(c) ==
    /\ cpc[c] = "check"
    /\ ~IndexLoaded(vector_store)
    /\ cresp' = [cresp EXCEPT ![c] = IndexNotFound]
    /\ cpc' = [cpc EXCEPT ![c] = "done"]
    /\ UNCHANGED <<dvars, loop, ivars, creq, retriever, reranked, calls>>
    /\ UNCHANGED <<pvars, evars, kvars, gvars, rvars>>

\* retriever = self.vector_store.as_retriever(...): the retriever holds the
\* index that is live now (on None the attribute access raises)
ChatRetriever(c) ==
    /\ cpc[c] = "check"
    /\ IndexLoaded(vector_store)
    /\ IF vector_store = NoIndex
       THEN /\ cresp' = [cresp EXCEPT ![c] = ChatError]
            /\ cpc' = [cpc EXCEPT ![c] = "done"]
            /\ UNCHANGED retriever
       ELSE /\ retriever' = [retriever EXCEPT ![c] = vector_store]
            /\ cpc' = [cpc EXCEPT ![c] = "search"]
            /\ UNCHANGED cresp
    /\ UNCHANGED <<dvars, loop, ivars, creq, reranked, calls>>
    /\ UNCHANGED <<pvars, evars, kvars, gvars, rvars>>

\* docs = retriever.invoke(question); reranked_docs = self._rerank_chunks(...)
ChatSearch(c) ==
    /\ cpc[c] = "search"
    /\ \E docs \in SearchResults(retriever[c], creq[c].top_k) :
        /\ ~RerankRaises(creq[c].message, docs)
        /\ reranked' = [reranked EXCEPT ![c] =
                            RerankChunks(creq[c].message, docs, RerankTopN)]
    /\ cpc' = [cpc EXCEPT ![c] = "generate"]
    /\ UNCHANGED <<dvars, loop, ivars, creq, retriever, calls, cresp>>
    /\ UNCHANGED <<pvars, evars, kvars, gvars, rvars>>

\* _rerank_chunks raises ZeroDivisionError; chat answers 500
ChatRerankRaises(c) ==
    /\ cpc[c] = "search"
    /\ \E docs \in SearchResults(retriever[c], creq[c].top_k) :
        RerankRaises(creq[c].message, docs)
    /\ cresp' = [cresp EXCEPT ![c] = ChatError]
    /\ cpc' = [cpc EXCEPT ![c] = "done"]
    /\ UNCHANGED <<dvars, loop, ivars, creq, retriever, reranked, calls>>
    /\ UNCHANGED <<pvars, evars, kvars, gvars, rvars>>

\* response = dynamic_llm.invoke(prompt_text); without evaluation the result returns
ChatGenerate(c) ==
    /\ cpc[c] = "generate"
    /\ calls' = [calls EXCEPT ![c] = @ + 1]
    /\ IF creq[c].evaluate
       THEN /\ cpc' = [cpc EXCEPT ![c] = "evaluate"]
            /\ UNCHANGED cresp
       ELSE /\ cresp' = [cresp EXCEPT ![c] =
                            [status |-> 200, answer |-> "answer",
                             sources |-> DeduplicateSources(SourceInfos(reranked[c])),
                             evaluation |-> NoReport]]
            /\ cpc' = [cpc EXCEPT ![c] = "done"]
    /\ UNCHANGED <<dvars, loop, ivars, creq, retriever, reranked>>
    /\ UNCHANGED <<pvars, evars, kvars, gvars, rvars>>

\* the completion collaborator fails on the answer; chat answers 500
ChatGenerateFails(c) ==
    /\ cpc[c] = "generate"
    /\ calls' = [calls EXCEPT ![c] = @ + 1]
    /\ cresp' = [cresp EXCEPT ![c] = ChatError]
    /\ cpc' = [cpc EXCEPT ![c] = "done"]
    /\ UNCHANGED <<dvars, loop, ivars, creq, retriever, reranked>>
    /\ UNCHANGED <<pvars, evars, kvars, gvars, rvars>>

\* evaluator.comprehensive_evaluation(...) returns its report
ChatEvaluate(c) ==
    /\ cpc[c] = "evaluate"
    /\ \E rs \in [Metrics -> UNION {ServiceResponses(m) : m \in Metrics}] :
        /\ \A m \in Metrics : rs[m] \in ServiceResponses(m)
        /\ RaisingMetrics(rs) = {}
        /\ \E report \in Reports(MetricResults(rs)) :
            cresp' = [cresp EXCEPT ![c] =
                         [status |-> 200, answer |-> "answer",
                          sources |-> DeduplicateSources(SourceInfos(reranked[c])),
                          evaluation |-> report]]
    /\ calls' = [calls EXCEPT ![c] = @ + 4]
    /\ cpc' = [cpc EXCEPT ![c] = "done"]
    /\ UNCHANGED <<dvars, loop, ivars, creq, retriever, reranked>>
    /\ UNCHANGED <<pvars, evars, kvars, gvars, rvars>>

\* a metric function raises: the exception leaves comprehensive_evaluation
\* and query, and chat answers 500
ChatEvaluateRaises(c) ==
    /\ cpc[c] = "evaluate"
    /\ \E rs \in [Metrics -> UNION {ServiceResponses(m) : m \in Metrics}] :
        /\ \A m \in Metrics : rs[m] \in ServiceResponses(m)
        /\ RaisingMetrics(rs) # {}
        /\ calls' = [calls EXCEPT ![c] = @ + MinOf(RaisingMetrics(rs))]
    /\ cresp' = [cresp EXCEPT ![c] = ChatError]
    /\ cpc' = [cpc EXCEPT ![c] = "done"]
    /\ UNCHANGED <<dvars, loop, ivars, creq, retriever, reranked>>
    /\ UNCHANGED <<pvars, evars, kvars, gvars, rvars>>

ChatRespond(c) ==
    /\ cpc[c] = "done"
    /\ cpc' = [cpc EXCEPT ![c] = "idle"]
    /\ creq' = [creq EXCEPT ![c] = NoChatRequest]
    /\ retriever' = [retriever EXCEPT ![c] = NoIndex]
    /\ reranked' = [reranked EXCEPT ![c] = <<>>]
    /\ calls' = [calls EXCEPT ![c] = 0]
    /\ cresp' = [cresp EXCEPT ![c] = NoChatResponse]
    /\ loop' = Free
    /\ UNCHANGED <<dvars, ivars>>
    /\ UNCHANGED <<pvars, evars, kvars, gvars, rvars>>

-----------------------------------------------------------------------------
(* Spec: the service from its construction on.                             *)

ParseIdle ==
    /\ ptext = <<>>
    /\ pmetric = 1
    /\ presult = NotRun
    /\ pdone = TRUE

ComposeIdle ==
    /\ cdocs = <<>>
    /\ ccontext = <<>>
    /\ csources = <<>>
    /\ cdone = TRUE

ChunkIdle ==
    /\ gtext = <<>>
    /\ gsize = 1
    /\ goverlap = 0
    /\ gchunks = <<>>
    /\ gall = <<>>
    /\ gpc = "done"

RerankIdle ==
    /\ rquery = <<>>
    /\ rtopk = 0
    /\ rcands = <<>>
    /\ rtopn = 0
    /\ rresult = <<>>
    /\ rout = "none"

\* a service that no request has reached and that holds no index
ServiceIdle ==
    /\ data_dir = [f \in FileNames |-> "absent"]
    /\ vector_store = NoIndex
    /\ persisted = NoIndex
    /\ loop = Free
    /\ ipc = [i \in IngestClients |-> "idle"]
    /\ ireq = [i \in IngestClients |-> NoIngestRequest]
    /\ all_documents = [i \in IngestClients |-> <<>>]
    /\ building = [i \in IngestClients |-> NoIndex]
    /\ iresp = [i \in IngestClients |-> NoIngestResponse]
    /\ cpc = [c \in ChatClients |-> "idle"]
    /\ creq = [c \in ChatClients |-> NoChatRequest]
    /\ retriever = [c \in ChatClients |-> NoIndex]
    /\ reranked = [c \in ChatClients |-> <<>>]
    /\ calls = [c \in ChatClients |-> 0]
    /\ cresp = [c \in ChatClients |-> NoChatResponse]

\* __init__ and _load_index_if_exists: the index directory holds nothing or
\* an index a previous run saved; loading it succeeds, or fails and leaves None
Init ==
    /\ ParseIdle
    /\ EvalIdle
    /\ ComposeIdle
    /\ ChunkIdle
    /\ RerankIdle
    /\ data_dir \in [FileNames -> FileStates]
    /\ persisted \in {NoIndex} \cup SavedIndexes
    /\ \E ok \in BOOLEAN : vector_store = LoadIndexIfExists(persisted, ok)
    /\ loop = Free
    /\ ipc = [i \in IngestClients |-> "idle"]
    /\ ireq = [i \in IngestClients |-> NoIngestRequest]
    /\ all_documents = [i \in IngestClients |-> <<>>]
    /\ building = [i \in IngestClients |-> NoIndex]
    /\ iresp = [i \in IngestClients |-> NoIngestResponse]
    /\ cpc = [c \in ChatClients |-> "idle"]
    /\ creq = [c \in ChatClients |-> NoChatRequest]
    /\ retriever = [c \in ChatClients |-> NoIndex]
    /\ reranked = [c \in ChatClients |-> <<>>]
    /\ calls = [c \in ChatClients |-> 0]
    /\ cresp = [c \in ChatClients |-> NoChatResponse]

Next ==
    \/ \E name \in FileNames : \E content \in {"good", "corrupt"} : UploadFile(name, content)
    \/ \E name \in FileNames : DeleteFile(name)
    \/ \E i \in IngestClients : IngestArrive(i)
    \/ \E i \in IngestClients : \E r \in IngestRequests : IngestStart(i, r)
    \/ \E i \in IngestClients : IngestLoad(i)
    \/ \E i \in IngestClients : IngestLoadNothing(i)
    \/ \E i \in IngestClients : IngestChunk(i)
    \/ \E i \in IngestClients : IngestChunkRejected(i)
    \/ \E i \in IngestClients : IngestEmbed(i)
    \/ \E i \in IngestClients : IngestEmbedFails(i)
    \/ \E i \in IngestClients : IngestSwap(i)
    \/ \E i \in IngestClients : IngestSave(i)
    \/ \E i \in IngestClients : IngestSaveFails(i)
    \/ \E i \in IngestClients : IngestRespond(i)
    \/ \E c \in ChatClients : ChatArrive(c)
    \/ \E c \in ChatClients : \E r \in ChatRequests : ChatStart(c, r)
    \/ \E c \in ChatClients : ChatNoIndex(c)
    \/ \E c \in ChatClients : ChatRetriever(c)
    \/ \E c \in ChatClients : ChatSearch(c)
    \/ \E c \in ChatClients : ChatRerankRaises(c)
    \/ \E c \in ChatClients : ChatGenerate(c)
    \/ \E c \in ChatClients : ChatGenerateFails(c)
    \/ \E c \in ChatClients : ChatEvaluate(c)
    \/ \E c \in ChatClients : ChatEvaluateRaises(c)
    \/ \E c \in ChatClients : ChatRespond(c)

Spec == Init /\ [][Next]_vars

-----------------------------------------------------------------------------
(* SpecParse: one metric function applied to one completion text.          *)

ParseValues == {900}

Tokens ==
    {Tok(t) : t \in {"p", "{", "}", "F", "E", "l"}}
        \cup {Pair(k, v) : k \in Keys, v \in ParseValues}

Texts == UNION {[1..n -> Tokens] : n \in 0..MaxTextLen}

InitParse ==
    /\ EvalIdle
    /\ ServiceIdle
    /\ ComposeIdle
    /\ ChunkIdle
    /\ RerankIdle
    /\ ptext \in Texts
    /\ pmetric \in Metrics
    /\ presult = NotRun
    /\ pdone = FALSE

RunMetric ==
    /\ ~pdone
    /\ presult' = EvaluateMetric(pmetric, LLMText(ptext))
    /\ pdone' = TRUE
    /\ UNCHANGED <<ptext, pmetric>>
    /\ UNCHANGED <<evars, svars, kvars, gvars, rvars>>

NextParse == RunMetric

SpecParse == InitParse /\ [][NextParse]_vars

-----------------------------------------------------------------------------
(* SpecEval: one call of comprehensive_evaluation, metric by metric.       *)

Scores == {0, 590, 600, 690, 698, 700, 790, 800, 900, 1000}

Prose == <<Tok("p")>>

\* what the completion collaborator can do when metric m calls it
ResponsesFor(m) ==
    {LLMFailure, LLMText(Prose)}
        \cup {LLMText(<<Tok("{"), Pair(ScoreKey(m), v), Tok("}")>>) : v \in Scores}

InitEval ==
    /\ epc = "metric"
    /\ eresp = <<>>
    /\ emetrics = <<>>
    /\ ereport = NoReport
    /\ eout = "none"
    /\ ParseIdle
    /\ ServiceIdle
    /\ ComposeIdle
    /\ ChunkIdle
    /\ RerankIdle

\* the next metric function returns its Metric Result
MetricReturns ==
    /\ epc = "metric"
    /\ \E r \in ResponsesFor(Len(emetrics) + 1) :
        LET m == Len(emetrics) + 1
            res == EvaluateMetric(m, r)
        IN  /\ res.kind = "value"
            /\ eresp' = Append(eresp, r)
            /\ emetrics' = Append(emetrics, res)
            /\ epc' = IF m = 4 THEN "aggregate" ELSE "metric"
    /\ UNCHANGED <<ereport, eout>>
    /\ UNCHANGED <<pvars, svars, kvars, gvars, rvars>>

\* the next metric function raises: nothing in comprehensive_evaluation
\* catches it, so the call ends there
MetricRaises ==
    /\ epc = "metric"
    /\ \E r \in ResponsesFor(Len(emetrics) + 1) :
        LET m == Len(emetrics) + 1
            res == EvaluateMetric(m, r)
        IN  /\ res.kind = "raise"
            /\ eresp' = Append(eresp, r)
    /\ epc' = "done"
    /\ eout' = "raised"
    /\ UNCHANGED <<emetrics, ereport>>
    /\ UNCHANGED <<pvars, svars, kvars, gvars, rvars>>

\* the overall score, the verdict and the recommendations; the report returns
Aggregate ==
    /\ epc = "aggregate"
    /\ ereport' \in Reports(emetrics)
    /\ eout' = "report"
    /\ epc' = "done"
    /\ UNCHANGED <<eresp, emetrics>>
    /\ UNCHANGED <<pvars, svars, kvars, gvars, rvars>>

NextEval == MetricReturns \/ MetricRaises \/ Aggregate

SpecEval == InitEval /\ [][NextEval]_vars


-----------------------------------------------------------------------------
(* SpecCompose: the context blocks and the citations of one list of        *)
(* reranked chunks (lines 233-256 of query).                               *)

ComposeChunks ==
    { [source |-> <<"data", "/", "a.pdf">>, page |-> "0", preview |-> "a1",
       content |-> <<"Budget", "plan">>],
      [source |-> <<"data", "/", "a.pdf">>, page |-> "0", preview |-> "a2",
       content |-> <<"risk", "plan">>],
      [source |-> <<"data", "/", "sub", "\\", "a.pdf">>, page |-> "0", preview |-> "s1",
       content |-> <<"plan">>],
      [source |-> <<"data", "/", "a.pdf">>, page |-> "1", preview |-> "a3",
       content |-> <<"team">>],
      [source |-> <<"data", "/", "b.docx">>, page |-> "Para-1", preview |-> "b1",
       content |-> <<"budget", "team">>] }

InitCompose ==
    /\ ParseIdle
    /\ EvalIdle
    /\ ServiceIdle
    /\ ChunkIdle
    /\ RerankIdle
    /\ cdocs \in UNION {[1..n -> ComposeChunks] : n \in 0..MaxReranked}
    /\ ccontext = <<>>
    /\ csources = <<>>
    /\ cdone = FALSE

Compose ==
    /\ ~cdone
    /\ ccontext' = ContextParts(cdocs)
    /\ csources' = DeduplicateSources(SourceInfos(cdocs))
    /\ cdone' = TRUE
    /\ UNCHANGED cdocs
    /\ UNCHANGED <<pvars, evars, svars, gvars, rvars>>

NextCompose == Compose

SpecCompose == InitCompose /\ [][NextCompose]_vars

-----------------------------------------------------------------------------
(* SpecChunk: _chunk_with_page_tracking on one document.                   *)

Letters == {"a", "b"}

DocTexts == UNION {[1..n -> Letters] : n \in 0..MaxDocLen}

SplitSizes == {1, 2, 3}

SplitOverlaps == {0, 1}

InitChunk ==
    /\ ParseIdle
    /\ EvalIdle
    /\ ServiceIdle
    /\ ComposeIdle
    /\ RerankIdle
    /\ gtext \in DocTexts
    /\ gsize \in SplitSizes
    /\ goverlap \in SplitOverlaps
    /\ ~SplitterRejects(gsize, goverlap)
    /\ gchunks = <<>>
    /\ gall = <<>>
    /\ gpc = "split"

\* chunks = text_splitter.split_text(doc.page_content)
SplitDocument ==
    /\ gpc = "split"
    /\ gchunks' = SplitText(gtext, gsize, goverlap)
    /\ gpc' = IF SplitText(gtext, gsize, goverlap) = <<>> THEN "done" ELSE "track"
    /\ UNCHANGED <<gtext, gsize, goverlap, gall>>
    /\ UNCHANGED <<pvars, evars, svars, kvars, rvars>>

\* one turn of the loop over the chunks: the position is computed and the
\* chunk appended to all_chunks
TrackChunk ==
    /\ gpc = "track"
    /\ gall' = Append(gall, TrackedChunk(gtext, gchunks, Len(gall)))
    /\ gpc' = IF Len(gall) + 1 = Len(gchunks) THEN "done" ELSE "track"
    /\ UNCHANGED <<gtext, gsize, goverlap, gchunks>>
    /\ UNCHANGED <<pvars, evars, svars, kvars, rvars>>

NextChunk == SplitDocument \/ TrackChunk

SpecChunk == InitChunk /\ [][NextChunk]_vars

-----------------------------------------------------------------------------
(* SpecRerank: _rerank_chunks on the chunks one retrieval returned.        *)

RerankQueries == {<<>>, <<"Budget">>, <<"Budget", "plan">>}

\* retriever.invoke(question): at most k distinct chunks of the index
Candidates(k) ==
    UNION { { cs \in [1..n -> ComposeChunks] :
                \A a \in 1..n : \A b \in 1..n : a # b => cs[a] # cs[b] } : n \in 0..k }

RerankTopNs == {1, 2, RerankTopN}

InitRerank ==
    /\ ParseIdle
    /\ EvalIdle
    /\ ServiceIdle
    /\ ComposeIdle
    /\ ChunkIdle
    /\ rquery \in RerankQueries
    /\ rtopk \in 1..MaxCandidates
    /\ rcands \in Candidates(rtopk)
    /\ rtopn \in RerankTopNs
    /\ rresult = <<>>
    /\ rout = "none"

\* _rerank_chunks returns the first top_n chunks of the sorted list
Rerank ==
    /\ rout = "none"
    /\ ~RerankRaises(rquery, rcands)
    /\ rresult' = RerankChunks(rquery, rcands, rtopn)
    /\ rout' = "returned"
    /\ UNCHANGED <<rquery, rtopk, rcands, rtopn>>
    /\ UNCHANGED <<pvars, evars, svars, kvars, gvars>>

\* the division by len(query_terms) raises ZeroDivisionError
RerankFails ==
    /\ rout = "none"
    /\ RerankRaises(rquery, rcands)
    /\ rout' = "raised"
    /\ UNCHANGED <<rquery, rtopk, rcands, rtopn, rresult>>
    /\ UNCHANGED <<pvars, evars, svars, kvars, gvars>>

NextRerank == Rerank \/ RerankFails

SpecRerank == InitRerank /\ [][NextRerank]_vars

-----------------------------------------------------------------------------
(* Claims about the metric functions (SpecParse).                          *)

\* C4: for every malformed completion text (plain prose, a fenced block with
\* broken JSON, a brace-delimited span that is not valid JSON, valid JSON that
\* is not an object) the metric function returns score 0.0 with its failing
\* verdict and does not raise.
PlainProse(text) == \A i \in 1..Len(text) : text[i].t = "p"

FencedBroken(text) ==
    \E i \in 1..Len(text) : \E j \in 1..Len(text) :
        /\ i + 1 < j
        /\ j < Len(text)
        /\ text[i].t = "F"
        /\ text[i + 1].t = "{"
        /\ text[j].t = "}"
        /\ text[j + 1].t = "E"
        /\ \E k \in (i + 2)..(j - 1) : text[k].t \notin Keys

BraceBroken(text) ==
    \E i \in 1..Len(text) : \E j \in 1..Len(text) :
        /\ i < j
        /\ text[i].t = "{"
        /\ text[j].t = "}"
        /\ \A k \in 1..Len(text) : text[k].t \in {"{", "}"} => (i <= k /\ k <= j)
        /\ \E k \in (i + 1)..(j - 1) : text[k].t \notin Keys

NonObjectJson(text) == Len(text) = 1 /\ text[1].t = "l"

Malformed(text) ==
    PlainProse(text) \/ FencedBroken(text) \/ BraceBroken(text) \/ NonObjectJson(text)

C4_MalformedScoresZero ==
    (pdone /\ Malformed(ptext)) =>
        /\ presult.kind = "value"
        /\ presult.score = 0
        /\ presult.verdict = FailVerdict(pmetric)

\* the part of C4 the code does deliver: plain prose, with no brace in it,
\* falls through to the default object
C4_ProseScoresZero ==
    (pdone /\ PlainProse(ptext)) =>
        /\ presult.kind = "value"
        /\ presult.score = 0
        /\ presult.verdict = FailVerdict(pmetric)

C4_BrokenFenceSeen ==
    /\ pdone
    /\ ptext = <<Tok("F"), Tok("{"), Tok("p"), Tok("}"), Tok("E")>>
    /\ presult.kind = "raise"

-----------------------------------------------------------------------------
(* Claims about the Evaluation Report (SpecEval).                          *)

Returned == epc = "done" /\ eout = "report"

\* C5: in every report returned, overall_verdict is PASS if and only if the
\* overall_score reported in that report (the rounded sum) is at least 0.7.
C5_VerdictMatchesReportedScore ==
    Returned => (ereport.overall_verdict = "PASS" <=> ereport.overall_score >= 700)

C5_RoundedUpToPassMark ==
    /\ Returned
    /\ ereport.overall_score = 700
    /\ ereport.overall_verdict = "FAIL"

\* C6: the reported overall_score is 0.25*context_relevance + 0.35*faithfulness
\* + 0.25*answer_relevance + 0.15*citation_quality rounded to 3 decimals (it
\* lies within half a thousandth of that sum), the weights sum to 1.0, and
\* when all four scores are 0.9 the report has overall_score 0.9, verdict PASS
\* and exactly one recommendation, the positive acknowledgment.
AbsDiff(a, b) == IF a >= b THEN a - b ELSE b - a

C6_OverallScoreIsWeightedSum ==
    Returned =>
        LET ms == ereport.metrics
            sum == 25 * ms[1].score + 35 * ms[2].score
                       + 25 * ms[3].score + 15 * ms[4].score
        IN  /\ Len(ms) = 4
            /\ AbsDiff(100 * ereport.overall_score, sum) <= 50
            /\ Weight(1) + Weight(2) + Weight(3) + Weight(4) = 100
            /\ (\A m \in Metrics : ms[m].score = 900) =>
                  /\ ereport.overall_score = 900
                  /\ ereport.overall_verdict = "PASS"
                  /\ ereport.recommendations = <<Acknowledgment>>

C6_AllNinesReported ==
    /\ Returned
    /\ \A m \in Metrics : ereport.metrics[m].score = 900

\* C7: the recommendations hold exactly one warning per metric whose score is
\* below its own threshold (0.7, 0.8, 0.7, 0.6), in the order context_relevance,
\* faithfulness, answer_relevance, citation_quality; there is no warning iff
\* all four metrics meet their thresholds, and then the list is exactly the
\* positive acknowledgment; the list is never empty.
WarningsFor(recs, m) ==
    { i \in 1..Len(recs) : recs[i].kind = "warning" /\ recs[i].metric = m }

C7_RecommendationsFollowThresholds ==
    Returned =>
        LET recs == ereport.recommendations
            ms == ereport.metrics
            own == <<700, 800, 700, 600>>
        IN  /\ Len(recs) >= 1
            /\ \A m \in Metrics :
                  Cardinality(WarningsFor(recs, m)) =
                      IF ms[m].score < own[m] THEN 1 ELSE 0
            /\ \A i \in 1..Len(recs) : \A j \in 1..Len(recs) :
                  (i < j /\ recs[i].kind = "warning" /\ recs[j].kind = "warning")
                      => recs[i].metric < recs[j].metric
            /\ (\A i \in 1..Len(recs) : recs[i].kind # "warning")
                  <=> (\A m \in Metrics : ms[m].score >= own[m])
            /\ (\A m \in Metrics : ms[m].score >= own[m])
                  => recs = <<Acknowledgment>>
            /\ \A i \in 1..Len(recs) :
                  recs[i].kind = "ack" => Len(recs) = 1

C7_TwoWarningsInOrder ==
    /\ Returned
    /\ Len(ereport.recommendations) = 2
    /\ ereport.recommendations[1].metric = 2
    /\ ereport.recommendations[2].metric = 4

\* C8: if the completion collaborator errors during one metric's call, that
\* metric alone degrades to the default error object (score 0.0) and
\* comprehensive_evaluation still returns a full report with the other three
\* metrics evaluated; the failure is not propagated.
C8_UpstreamErrorDegradesOneMetric ==
    (epc = "done" /\ \E m \in 1..Len(eresp) : eresp[m].err) =>
        /\ eout = "report"
        /\ Len(ereport.metrics) = 4
        /\ \A m \in 1..Len(eresp) : eresp[m].err => ereport.metrics[m].score = 0

C8_ErrorInSecondMetric ==
    /\ epc = "done"
    /\ Len(eresp) = 2
    /\ eresp[2].err
    /\ eout = "raised"

-----------------------------------------------------------------------------
(* Claims about the service (Spec).                                        *)

\* C1: a query issued while no index is loaded returns the fixed "Index not
\* found" answer with empty sources and no evaluation, whatever the evaluate
\* flag, and makes no call of the completion collaborator.
C1_NoIndexShortCircuits ==
    \A c \in ChatClients :
        (cpc[c] \in {"search", "generate", "evaluate", "done"} /\ ~vector_store.loaded) =>
            /\ cpc[c] = "done"
            /\ cresp[c].status = 200
            /\ cresp[c].answer = "Index not found"
            /\ cresp[c].sources = <<>>
            /\ cresp[c].evaluation = NoReport
            /\ calls[c] = 0

C1_NoIndexWithEvaluate ==
    \E c \in ChatClients :
        /\ cpc[c] = "done"
        /\ ~vector_store.loaded
        /\ creq[c].evaluate
        /\ cresp[c].answer = "Index not found"

\* C2: a search sees the complete previous index or the complete new one,
\* never a partly built one: self.vector_store is always a complete index,
\* the index a retriever searches is complete, and the index that replaces
\* the live reference is the fully constructed one.
C2_SearchSeesCompleteIndex ==
    /\ vector_store.chunks = ChunkAll(vector_store.docs)
    /\ \A c \in ChatClients : retriever[c].chunks = ChunkAll(retriever[c].docs)
    /\ \A i \in IngestClients :
          ipc[i] = "save" =>
              /\ vector_store = building[i]
              /\ building[i].chunks = ChunkAll(all_documents[i])

C2_QueryWaitsDuringBuild ==
    \E i \in IngestClients : \E c \in ChatClients :
        /\ ipc[i] = "build"
        /\ building[i].chunks # <<>>
        /\ building[i].chunks # ChunkAll(building[i].docs)
        /\ vector_store.loaded
        /\ vector_store.docs # building[i].docs
        /\ cpc[c] = "pending"

\* C3: at most one index build is in flight: of two ingestion requests that
\* arrive together, the second waits until the first has returned.
IngestRunning(i) == ipc[i] \in {"load", "chunk", "build", "swap", "save", "done"}

C3_OneBuildInFlight ==
    /\ Cardinality({ i \in IngestClients : IngestRunning(i) }) <= 1
    /\ \A i \in IngestClients : IngestRunning(i) => loop = i

C3_SecondIngestWaits ==
    \E i \in IngestClients : \E j \in IngestClients :
        /\ i # j
        /\ ipc[i] = "build"
        /\ ipc[j] = "pending"

\* C10: every ingest request whose chunk_overlap is at least its chunk_size
\* fails with a configuration error before any document is loaded, whether
\* or not the data directory holds documents.
C10_OverlapRejectedFirst ==
    \A i \in IngestClients :
        (ipc[i] = "done" /\ ireq[i].chunk_overlap >= ireq[i].chunk_size) =>
            /\ iresp[i].status = 500
            /\ all_documents[i] = <<>>

C10_EmptyDirectoryAccepted ==
    \E i \in IngestClients :
        /\ ipc[i] = "done"
        /\ ireq[i].chunk_overlap > ireq[i].chunk_size
        /\ iresp[i] = [status |-> 200, message |-> "No documents found"]

-----------------------------------------------------------------------------
(* Claims about the citations (SpecCompose).                               *)

DocKey(doc) == <<ShortName(doc.source), doc.page>>

FirstWithKey(docs, key) ==
    MinOf({ i \in 1..Len(docs) : DocKey(docs[i]) = key })

\* C9: no two citations of a result share a (file, page) key; every key among
\* the reranked chunks appears exactly once; the entry kept is the key's
\* first occurrence, preview included; the entries are in first-seen order.
C9_CitationsDeduplicated ==
    cdone =>
        /\ \A i \in 1..Len(csources) : \A j \in 1..Len(csources) :
              i # j => SourceKey(csources[i]) # SourceKey(csources[j])
        /\ \A i \in 1..Len(cdocs) :
              \E j \in 1..Len(csources) : SourceKey(csources[j]) = DocKey(cdocs[i])
        /\ \A j \in 1..Len(csources) :
              /\ \E i \in 1..Len(cdocs) : DocKey(cdocs[i]) = SourceKey(csources[j])
              /\ csources[j].preview =
                    cdocs[FirstWithKey(cdocs, SourceKey(csources[j]))].preview
        /\ \A i \in 1..Len(csources) : \A j \in 1..Len(csources) :
              i < j => FirstWithKey(cdocs, SourceKey(csources[i]))
                          < FirstWithKey(cdocs, SourceKey(csources[j]))

C9_DuplicateDropped ==
    /\ cdone
    /\ Len(cdocs) = 3
    /\ DocKey(cdocs[1]) = DocKey(cdocs[3])
    /\ cdocs[1].preview # cdocs[3].preview
    /\ DocKey(cdocs[1]) # DocKey(cdocs[2])
    /\ Len(csources) = 2

-----------------------------------------------------------------------------
(* Claims about the life of the index (Spec).                              *)

\* C11: the index becomes READY only by a successful load at construction
\* or by the assignment of a fully built index; once READY no step (a failed
\* or empty ingestion, an upload, a delete, a query, an evaluation) returns
\* it to UNINITIALIZED; a failed load leaves it UNINITIALIZED and the
\* service starts all the same.
C11_IndexLifecycle ==
    /\ (vector_store.loaded => vector_store = persisted)
    /\ (~persisted.loaded => vector_store = NoIndex)
    /\ [][ /\ vector_store.loaded => vector_store'.loaded
           /\ (~vector_store.loaded /\ vector_store'.loaded) =>
                 \E i \in IngestClients :
                     /\ ipc[i] = "swap"
                     /\ building[i] = IndexOf(all_documents[i])
                     /\ vector_store' = building[i] ]_vars

C11_ReadySurvivesFailedBuild ==
    \E i \in IngestClients :
        /\ ipc[i] = "done"
        /\ iresp[i] = IngestError
        /\ building[i].chunks # <<>>
        /\ building[i] # IndexOf(all_documents[i])
        /\ vector_store.loaded
        /\ vector_store.docs # all_documents[i]

\* C12: the index changes only when an ingestion replaces it by a full
\* rebuild: a step that changes the files of the data directory (upload,
\* delete) or moves a chat request (query, evaluation) leaves the in-memory
\* and the saved index as they were, so the chunks of a deleted file stay
\* citable; the index an ingestion installs holds the chunks of the
\* documents loadable at that ingestion and no others.
C12_IndexChangesOnlyByRebuild ==
    [][ /\ (data_dir' # data_dir \/ cpc' # cpc) =>
              (vector_store' = vector_store /\ persisted' = persisted)
        /\ vector_store' # vector_store =>
              \E i \in IngestClients :
                  /\ ipc[i] = "swap"
                  /\ ipc'[i] = "save"
                  /\ vector_store' = IndexOf(LoadAll(data_dir)) ]_vars

C12_DeletedFileStillCited ==
    \E c \in ChatClients :
        /\ cpc[c] = "done"
        /\ cresp[c].status = 200
        /\ data_dir["a.pdf"] = "absent"
        /\ data_dir["b.docx"] = "good"
        /\ \E j \in 1..Len(cresp[c].sources) : cresp[c].sources[j].file = <<"a.pdf">>

\* C13: a file whose loader fails does not abort the ingestion: the
\* documents of every loadable file, and of no other, are loaded, chunked
\* and indexed, and an ingestion that ends in an error has loaded at least
\* one document; when no file is loadable the ingestion answers "No
\* documents found" without an error and leaves the in-memory and the saved
\* index as they were.
LoadedFrom(docs, name) == \E k \in 1..Len(docs) : docs[k].source = PathOf(name)

C13_LoaderFailureSkipsFile ==
    /\ [](\A i \in IngestClients :
            /\ ipc[i] \in {"chunk", "build", "swap", "save"} =>
                  \A name \in FileNames :
                      data_dir[name] = "good" <=> LoadedFrom(all_documents[i], name)
            /\ ipc[i] = "save" =>
                  \A name \in FileNames :
                      data_dir[name] = "good" <=> LoadedFrom(vector_store.chunks, name)
            /\ (ipc[i] = "done" /\ iresp[i].status = 500) => all_documents[i] # <<>>
            /\ (ipc[i] = "done" /\ iresp[i].message = "No documents found") =>
                  /\ iresp[i].status = 200
                  /\ \A name \in FileNames : data_dir[name] # "good")
    /\ [][\A i \in IngestClients :
            (ipc[i] = "load" /\ ipc'[i] = "done") =>
                /\ iresp'[i] = [status |-> 200, message |-> "No documents found"]
                /\ vector_store' = vector_store
                /\ persisted' = persisted]_vars

C13_CorruptFileSkipped ==
    \E i \in IngestClients :
        /\ ipc[i] = "save"
        /\ data_dir["a.pdf"] = "corrupt"
        /\ data_dir["b.docx"] = "good"
        /\ vector_store.chunks = ChunksOfDoc(DocsOfFile("b.docx")[1])

\* C18: when ingest_folder has finished, by returning or by raising at any
\* step, the index saved in the index directory and the index in memory
\* that serves the queries hold the same set of chunks.
ChunkSet(ix) == { ix.chunks[k] : k \in 1..Len(ix.chunks) }

C18_SavedIndexIsServedIndex ==
    \A i \in IngestClients :
        (ipc[i] = "done" /\ vector_store.loaded) =>
            ChunkSet(persisted) = ChunkSet(vector_store)

C18_SaveFailedAfterSwap ==
    \E i \in IngestClients :
        /\ ipc[i] = "done"
        /\ iresp[i] = IngestError
        /\ vector_store = IndexOf(all_documents[i])
        /\ persisted.loaded
        /\ ChunkSet(persisted) # ChunkSet(vector_store)

-----------------------------------------------------------------------------
(* Claims about the chunker (SpecChunk).                                   *)

\* C14: each chunk emitted for a document occurs verbatim in the document
\* text, its relative position lies between 0 and 1, and the positions do
\* not decrease in the order of emission, repeated text included.
OccursIn(text, chunk) ==
    \E at \in 0..(Len(text) - Len(chunk)) : SubSeq(text, at + 1, at + Len(chunk)) = chunk

PositionLeq(p, q) == p.num * q.den <= q.num * p.den

C14_PositionsNonDecreasing ==
    \A k \in 1..Len(gall) :
        /\ OccursIn(gtext, gall[k].content)
        /\ 0 <= gall[k].chunk_position.num
        /\ gall[k].chunk_position.num <= gall[k].chunk_position.den
        /\ \A j \in 1..(k - 1) :
              PositionLeq(gall[j].chunk_position, gall[k].chunk_position)

C14_RepeatedTextMovesBack ==
    /\ gpc = "done"
    /\ gtext = <<"a", "b", "b", "a", "b">>
    /\ gsize = 2
    /\ goverlap = 0
    /\ Len(gall) = 3
    /\ gall[2].chunk_position = [num |-> 2, den |-> 5]
    /\ gall[3].chunk_position = [num |-> 1, den |-> 5]

-----------------------------------------------------------------------------
(* Claims about the reranker (SpecRerank).                                 *)

\* C15: reranking a non-empty list of candidates with a query of no term
\* does not fail: every score is 0 and the candidates come back in their
\* similarity order, cut to top_n.
C15_ZeroTermQueryKeepsOrder ==
    (rout # "none" /\ Terms(rquery) = {} /\ rcands # <<>>) =>
        /\ rout = "returned"
        /\ rresult = SubSeq(rcands, 1, MinOf({rtopn, Len(rcands)}))

C15_ZeroTermQueryRaises ==
    /\ rout = "raised"
    /\ rquery = <<>>
    /\ Len(rcands) = 2
    /\ rtopn = 1

\* C16: for a query with at least one term the result of the reranking is
\* the first min(top_n, number of candidates) candidates in the order of
\* descending overlap score, equal scores in similarity order: every
\* element is a candidate, none occurs twice, the result is not longer than
\* top_n or the requested k, and a candidate left out has a lower score
\* than every element kept, or the same score and a later place.
PlaceOf(chunk) == CHOOSE i \in 1..Len(rcands) : rcands[i] = chunk

Kept(i) == \E k \in 1..Len(rresult) : rresult[k] = rcands[i]

-----------------------------------------------------------------------------
(* Claims about the context labels (SpecCompose).                          *)

\* C17: the label i of each context block matches the citation list: for
\* every i the i-th entry of the sources of the result has the (file, page)
\* of the block labeled Source i, also when several reranked chunks share
\* a (file, page) key.
C17_LabelsMatchCitations ==
    cdone =>
        \A i \in 1..Len(ccontext) :
            /\ ccontext[i].label = i
            /\ i <= Len(csources)
            /\ SourceKey(csources[i]) = <<ccontext[i].file, ccontext[i].page>>

C17_LabelPointsAtOtherFile ==
    /\ cdone
    /\ Len(ccontext) = 3
    /\ <<ccontext[1].file, ccontext[1].page>> = <<ccontext[2].file, ccontext[2].page>>
    /\ ccontext[2].file = <<"a.pdf">>
    /\ ccontext[3].file = <<"b.docx">>
    /\ Len(csources) = 2
    /\ csources[2].file = <<"b.docx">>

-----------------------------------------------------------------------------
(* Claims about the verdict and the recommendations (SpecEval).            *)

\* C19: in a report whose four scores lie in [0, 1], when every metric meets
\* its own threshold the recommendations are the single acknowledgment and
\* the overall verdict is PASS; a report whose overall verdict is FAIL
\* carries at least one warning.
C19_AllMetricsPassImpliesPass ==
    Returned =>
        LET ms == ereport.metrics
            recs == ereport.recommendations
            own == <<700, 800, 700, 600>>
        IN  (\A m \in Metrics : 0 <= ms[m].score /\ ms[m].score <= 1000) =>
                /\ (\A m \in Metrics : ms[m].score >= own[m]) =>
                      /\ recs = <<Acknowledgment>>
                      /\ ereport.overall_verdict = "PASS"
                /\ ereport.overall_verdict = "FAIL" =>
                      \E i \in 1..Len(recs) : recs[i].kind = "warning"

C19_AllAtTheirThresholds ==
    /\ Returned
    /\ ereport.metrics[1].score = 700
    /\ ereport.metrics[2].score = 800
    /\ ereport.metrics[3].score = 700
    /\ ereport.metrics[4].score = 600
    /\ ereport.overall_score = 720
    /\ ereport.overall_verdict = "PASS"
    /\ ereport.recommendations = <<Acknowledgment>>

====
